---- MODULE Spec2Model ----
(***************************************************************************)
(* The two notebooks of the repository, each run top to bottom:            *)
(*   "la"  identifying-suitable-sites-for-als-clinics-using-location-      *)
(*         allocation-analysis.ipynb                                       *)
(*   "sa"  constructing_drive_time_based_service_areas.ipynb               *)
(* A notebook is a sequence of code cells, a cell a sequence of            *)
(* statements.  One action models one statement (one iteration of a loop,  *)
(* one step of the body of visualize_locate_allocate_results).  A          *)
(* statement that raises ends its cell; the run then goes on with the next *)
(* cell or stops.  The hosted service is the variable svc: what it answers *)
(* to each request and which requests it fails.                            *)
(***************************************************************************)
EXTENDS Integers, Sequences, FiniteSets, TLC

VARIABLES nb, svc, pc, halted, ns, bound, trace, calls, inspected, sessions

vars == <<nb, svc, pc, halted, ns, bound, trace, calls, inspected, sessions>>

(* ---------------- bounds of the model ---------------- *)
MaxResults == 4
MaxPatients == 2
MaxFacilities == 2
MaxDemand == 2
MaxLines == 2
MaxModes == 2
MaxPolygons == 2
MaxFaults == 2
MaxReruns == 1

(* ---------------- literals of the notebooks ---------------- *)
TargetMarketShare == 70
DocumentedMarketShare == 50
MeasurementCutoff == 90
ChosenFacilityType == 3
Map2Zoom == 7
Map3InitialZoom == 7
Map3Zoom == 6
TokyoZoom == 12

Titles == <<"ALS_Clinics_CA", "ALS_Patients_CA",
            "ALS_Clinic_City_Candidates_CA", "ALS_Clinic_90minDriveTime_CA">>
OtherTitle == "ALS_Other"
Breaks == <<5, 10, 15>>
TruckingTime == "Trucking Time"
DrivingTime == "Driving Time"

(* ---------------- small helpers ---------------- *)
Range(s) == {s[i] : i \in DOMAIN s}
SeqsUpTo(S, n) == UNION {[1..k -> S] : k \in 0..n}
Restrict(f, D) == [x \in D |-> f[x]]

(* ---------------- features, feature sets, data frames ---------------- *)
(* A feature is [geometry, attributes]; a FeatureSet is a sequence of      *)
(* features.  A data frame is a sequence of rows [index, cells], cells a   *)
(* function from column name to value; the geometry is the column SHAPE.   *)
Feature(geometry, attributes) == [geometry |-> geometry, attributes |-> attributes]
FeatureSet(features, geometry_type, spatial_reference) ==
  [features |-> features, geometry_type |-> geometry_type,
   spatial_reference |-> spatial_reference]
Wgs84 == [latestWkid |-> 4326]
PointSet(features) == FeatureSet(features, "esriGeometryPoint", Wgs84)
LineSet(features) == FeatureSet(features, "esriGeometryPolyline", Wgs84)
EmptyFeatureSet == FeatureSet(<<>>, "", [latestWkid |-> 0])

(* FeatureSet.sdf *)
Sdf(fset) ==
  [i \in DOMAIN fset.features |->
     [index |-> i - 1,
      cells |-> ("SHAPE" :> fset.features[i].geometry) @@ fset.features[i].attributes]]

(* df[new] = df[old] *)
AssignColumn(df, new, old) ==
  [i \in DOMAIN df |->
     [df[i] EXCEPT !.cells = (new :> df[i].cells[old]) @@ df[i].cells]]

(* df.drop(col, axis=1) *)
DropColumn(df, col) ==
  [i \in DOMAIN df |->
     [df[i] EXCEPT !.cells = Restrict(df[i].cells, DOMAIN df[i].cells \ {col})]]

(* df[[c1, c2, ...]] *)
SelectColumns(df, cols) ==
  [i \in DOMAIN df |-> [df[i] EXCEPT !.cells = Restrict(df[i].cells, cols)]]

(* df[col] as the set of its values *)
ColumnValues(df, col) == {df[i].cells[col] : i \in DOMAIN df}

(* df.spatial.to_featureset() and features.FeatureSet.from_dataframe(df) *)
ToFeatureSet(df) ==
  PointSet([i \in DOMAIN df |->
              Feature(df[i].cells["SHAPE"],
                      Restrict(df[i].cells, DOMAIN df[i].cells \ {"SHAPE"}))])

(* ---------------- what the hosted service answers ---------------- *)
(* gis.content.search: items, each remembering the session it came from *)
SearchItems(titles, g) ==
  [i \in DOMAIN titles |-> [id |-> i, title |-> titles[i], gis |-> g]]
NoItem == [id |-> 0, title |-> "", gis |-> 0]

(* patient_locations.layers[0].query(): one feature per patient location *)
PatientFeatures(nums) ==
  PointSet([i \in DOMAIN nums |->
              Feature(100 + i, [OBJECTID |-> i, num_patients |-> nums[i]])])

(* city_candidates.layers[0].query() *)
CityFeatures(n) ==
  PointSet([i \in 1..n |-> Feature(200 + i, [OBJECTID |-> i, Name |-> i])])

(* the named tuple solve_location_allocation returns *)
LocationAllocationResult(a) ==
  [solve_succeeded |-> a.ok,
   output_facilities |->
     PointSet([i \in DOMAIN a.types |->
        Feature(200 + i, [ObjectID |-> i, Name |-> i, FacilityType |-> a.types[i],
                          Weight |-> 1, DemandCount |-> Len(a.lines),
                          DemandWeight |-> Len(a.lines)])]),
   output_demand_points |->
     PointSet([i \in DOMAIN a.demand |->
        Feature(100 + i, [ObjectID |-> i, DemandOID |-> a.demand[i], Weight |-> 1])]),
   output_allocation_lines |->
     LineSet([i \in DOMAIN a.lines |->
        Feature(300 + i, [ObjectID |-> i, DemandOID |-> a.lines[i], FacilityOID |-> 1])])]
NoResult ==
  [solve_succeeded |-> FALSE, output_facilities |-> EmptyFeatureSet,
   output_demand_points |-> EmptyFeatureSet, output_allocation_lines |-> EmptyFeatureSet]

(* sa_layer.retrieve_travel_modes() *)
TravelModes(names) ==
  [supportedTravelModes |-> [i \in DOMAIN names |-> [id |-> i, name |-> names[i]]]]
NoMode == [id |-> 0, name |-> ""]

(* the dictionary solve_service_area returns: one polygon per break reached *)
ServiceAreaResult(tobreaks) ==
  [saPolygons |->
     [geometryType |-> "esriGeometryPolygon",
      spatialReference |-> [latestWkid |-> 4326],
      features |->
        [i \in DOMAIN tobreaks |->
           [geometry |-> 400 + i,
            attributes |-> [ObjectID |-> i, FromBreak |-> tobreaks[i] - 5,
                            ToBreak |-> tobreaks[i]]]]]]
NoServiceArea ==
  [saPolygons |-> [geometryType |-> "", spatialReference |-> [latestWkid |-> 0],
                   features |-> <<>>]]

(* ---------------- the statements of the two notebooks ---------------- *)
(* [id, cell, reads: the names the statement evaluates, binds: the names   *)
(* it assigns, fallible: it calls the service or the map widget]           *)
S(id, cell, reads, binds, fallible) ==
  [id |-> id, cell |-> cell, reads |-> reads, binds |-> binds, fallible |-> fallible]

LA ==
  << S("la_import", 1, {}, {"GIS", "network", "features", "display"}, FALSE),
     S("la_gis", 1, {"GIS"}, {"gis"}, TRUE),
     S("la_search", 2, {"gis"}, {"search_als"}, TRUE),
     S("la_display_items", 2, {"search_als", "display"}, {}, FALSE),
     S("la_print_titles", 3, {"search_als"}, {}, FALSE),
     S("la_map1", 4, {"gis"}, {"map1"}, TRUE),
     S("la_map1_basemap", 4, {"map1"}, {}, FALSE),
     S("la_map1_display", 4, {"display", "map1"}, {}, FALSE),
     S("la_select", 5, {"search_als"}, {}, FALSE),
     S("la_add_drive_times", 5, {"map1", "drive_times"}, {}, TRUE),
     S("la_add_als_clinics", 5, {"map1", "als_clinics"}, {}, TRUE),
     S("la_add_patient_locations", 5, {"map1", "patient_locations"}, {}, TRUE),
     S("la_add_city_candidates", 5, {"map1", "city_candidates"}, {}, TRUE),
     S("la_query_cities", 6, {"city_candidates"}, {"city_candidates_fset"}, TRUE),
     S("la_query_patients", 6, {"patient_locations"}, {"patient_locations_fset"}, TRUE),
     S("la_sdf", 6, {"patient_locations_fset"}, {"patient_locations_sdf"}, FALSE),
     S("la_weight", 7, {"patient_locations_sdf"}, {}, FALSE),
     S("la_drop", 7, {"patient_locations_sdf"}, {"patient_locations_sdf2"}, FALSE),
     S("la_to_featureset", 7, {"patient_locations_sdf2"}, {"patient_locations_weighted"}, FALSE),
     S("la_def", 8, {}, {"time", "visualize_locate_allocate_results"}, FALSE),
     S("la_solve1", 9, {"network", "patient_locations_weighted", "city_candidates_fset"},
       {"result1"}, TRUE),
     S("la_print1", 9, {"result1"}, {}, FALSE),
     S("la_table1", 10, {"result1"}, {}, FALSE),
     S("la_map2", 11, {"gis"}, {"map2"}, TRUE),
     S("la_map2_basemap", 11, {"map2"}, {}, FALSE),
     S("la_map2_display", 11, {"display", "map2"}, {}, FALSE),
     S("la_viz1", 11, {"visualize_locate_allocate_results", "map2", "result1"}, {}, FALSE),
     S("la_solve2", 12, {"network", "patient_locations_weighted", "city_candidates_fset"},
       {"result2"}, TRUE),
     S("la_print2", 12, {"result2"}, {}, FALSE),
     S("la_table2", 13, {"result2"}, {}, FALSE),
     S("la_map3", 14, {"gis"}, {"map3"}, TRUE),
     S("la_map3_basemap", 14, {"map3"}, {}, FALSE),
     S("la_map3_display", 14, {"map3"}, {"display"}, FALSE),
     S("la_viz2", 14, {"visualize_locate_allocate_results", "map3", "result2"}, {}, FALSE) >>

SA ==
  << S("sa_import", 1, {}, {"datetime", "HTML", "pd", "GIS"}, FALSE),
     S("sa_credentials", 1, {}, {"user_name", "password"}, FALSE),
     S("sa_gis", 1, {"GIS", "user_name", "password"}, {"my_gis"}, TRUE),
     S("sa_import_network", 2, {}, {"network"}, FALSE),
     S("sa_url", 3, {"my_gis"}, {"service_area_url"}, TRUE),
     S("sa_layer", 4, {"network", "service_area_url", "my_gis"}, {"sa_layer"}, FALSE),
     S("sa_coords", 5, {}, {"fire_station_1_coord", "fire_station_2_coord"}, FALSE),
     S("sa_import_features", 5, {}, {"Feature", "FeatureSet"}, FALSE),
     S("sa_f1", 5, {"Feature", "fire_station_1_coord"}, {"f1"}, FALSE),
     S("sa_f2", 5, {"Feature", "fire_station_2_coord"}, {"f2"}, FALSE),
     S("sa_fire_station_fset", 5, {"FeatureSet", "f1", "f2"}, {"fire_station_fset"}, FALSE),
     S("sa_map1", 6, {"my_gis"}, {"map1"}, TRUE),
     S("sa_symbol", 7, {}, {"fire_truck_symbol"}, FALSE),
     S("sa_draw_stations", 7, {"map1", "fire_station_fset", "fire_truck_symbol"}, {}, TRUE),
     S("sa_modes", 8, {"sa_layer"}, {"travel_modes"}, TRUE),
     S("sa_truck", 8, {"travel_modes"}, {"truck_mode"}, FALSE),
     S("sa_solve", 8, {"sa_layer", "fire_station_fset", "truck_mode"}, {"result"}, TRUE),
     S("sa_keys", 9, {"result"}, {}, FALSE),
     S("sa_poly_keys", 10, {"result"}, {}, FALSE),
     S("sa_list_init", 11, {}, {"poly_feat_list"}, FALSE),
     S("sa_reshape", 11, {"result"}, {}, FALSE),
     S("sa_fset", 12, {"FeatureSet", "poly_feat_list", "result"}, {"service_area_fset"}, FALSE),
     S("sa_df", 13, {"service_area_fset"}, {}, FALSE),
     S("sa_colors", 14, {}, {"colors"}, FALSE),
     S("sa_fill_symbol", 14, {}, {"fill_symbol"}, FALSE),
     S("sa_draw_areas", 15, {"service_area_fset"}, {}, TRUE) >>

(* the six draws in the body of visualize_locate_allocate_results *)
VizDraws == <<"viz_draw_lines_4", "viz_draw_lines_2", "viz_draw_lines_1",
              "viz_draw_allocated", "viz_draw_unallocated", "viz_draw_chosen">>

Program(n) == IF n = "la" THEN LA ELSE SA
Prog == Program(nb)
Fallible(n) ==
  {Program(n)[i].id : i \in {j \in DOMAIN Program(n) : Program(n)[j].fallible}}
    \cup (IF n = "la" THEN Range(VizDraws) ELSE {})
AllNames ==
  UNION {LA[i].binds : i \in DOMAIN LA} \cup UNION {SA[i].binds : i \in DOMAIN SA}
    \cup {"item", "als_clinics", "patient_locations", "city_candidates", "drive_times",
          "polygon_dict", "service_area", "popup"}

(* ---------------- the behaviours of the service considered ---------------- *)
(* faults: the fallible statements whose call raises; the other fields are *)
(* what the service answers to the requests of the notebook.               *)
FaultSets(n, k) == {F \in SUBSET Fallible(n) : Cardinality(F) <= k}
Answers(oks, T, D, L) == [ok : oks, types : T, demand : D, lines : L]
DefaultAnswer == [ok |-> TRUE, types |-> <<1, 3>>, demand |-> <<1, 2>>, lines |-> <<1>>]
DefaultPatients == <<2, 1>>

LAWorlds(F, Se, P, A1, A2) ==
  [faults : F, search : Se, patients : P, la1 : A1, la2 : A2,
   modes : {<<>>}, polygons : {<<>>}]
SAWorlds(F, M, Po) ==
  [faults : F, search : {<<>>}, patients : {<<>>},
   la1 : {DefaultAnswer}, la2 : {DefaultAnswer}, modes : M, polygons : Po]

(* the search answers that hold the four items, or lack one of them *)
SearchWithGaps ==
  {Titles} \cup {SelectSeq(Titles, LAMBDA x : x # Titles[i]) : i \in DOMAIN Titles}

(* Spec: every set of at most MaxFaults failing calls with the four items  *)
(* found, every search answer with a gap without failing call, and either  *)
(* success flag of the two location-allocation solves                      *)
Flags ==
  Answers(BOOLEAN, {DefaultAnswer.types}, {DefaultAnswer.demand}, {DefaultAnswer.lines})
FlowWorlds(n) ==
  IF n = "la"
  THEN LAWorlds(FaultSets("la", MaxFaults), {Titles}, {DefaultPatients}, Flags, Flags)
       \cup LAWorlds({{}}, SearchWithGaps, {DefaultPatients}, Flags, Flags)
  ELSE SAWorlds(FaultSets("sa", MaxFaults),
                SeqsUpTo({TruckingTime, DrivingTime}, MaxModes),
                {<<>>, <<5, 10>>})

(* SpecData: no failing call, one answer at a time drawn from all answers  *)
(* within the bounds                                                       *)
RichAnswers ==
  Answers({TRUE}, SeqsUpTo({1, ChosenFacilityType}, MaxFacilities),
          {DefaultAnswer.demand}, {DefaultAnswer.lines})
  \cup Answers({TRUE}, {DefaultAnswer.types},
               SeqsUpTo({1, 2}, MaxDemand), SeqsUpTo({1, 2, 3}, MaxLines))
DataWorlds(n) ==
  IF n = "la"
  THEN LAWorlds({{}}, SeqsUpTo(Range(Titles) \cup {OtherTitle}, MaxResults),
                {DefaultPatients}, {DefaultAnswer}, {DefaultAnswer})
       \cup LAWorlds({{}}, {Titles}, SeqsUpTo({1, 2}, MaxPatients),
                     {DefaultAnswer}, {DefaultAnswer})
       \cup LAWorlds({{}}, {Titles}, {DefaultPatients}, RichAnswers, {DefaultAnswer})
       \cup LAWorlds({{}}, {Titles}, {DefaultPatients}, {DefaultAnswer}, RichAnswers)
  ELSE SAWorlds({{}}, {<<DrivingTime, TruckingTime>>},
                SeqsUpTo(Range(Breaks), MaxPolygons))

(* ---------------- the kernel's namespace ---------------- *)
NewMap(g, zoomlevel) ==
  [gis |-> g, basemap |-> "default", zoom |-> zoomlevel, layers |-> <<>>, drawn |-> <<>>]
NoFrame ==
  [fpc |-> "none", m |-> "", result |-> NoResult, zoom_level |-> 0,
   demand_allocated_fset |-> EmptyFeatureSet,
   demand_not_allocated_fset |-> EmptyFeatureSet,
   facilities_chosen_fset |-> EmptyFeatureSet]
EmptyNamespace ==
  [gis |-> 0, my_gis |-> 0, active_gis |-> 0,
   search_als |-> <<>>, it |-> 0, item |-> NoItem,
   als_clinics |-> NoItem, patient_locations |-> NoItem,
   city_candidates |-> NoItem, drive_times |-> NoItem,
   map1 |-> NewMap(0, 0), map2 |-> NewMap(0, 0), map3 |-> NewMap(0, 0),
   city_candidates_fset |-> EmptyFeatureSet, patient_locations_fset |-> EmptyFeatureSet,
   patient_locations_sdf |-> <<>>, patient_locations_sdf2 |-> <<>>,
   patient_locations_weighted |-> EmptyFeatureSet,
   result1 |-> NoResult, result2 |-> NoResult, frame |-> NoFrame,
   service_area_url |-> "", sa_layer |-> [url |-> "", gis |-> 0],
   f1 |-> Feature(0, <<>>), f2 |-> Feature(0, <<>>),
   polygon_dict |-> Feature(0, <<>>), fire_station_fset |-> EmptyFeatureSet,
   travel_modes |-> TravelModes(<<>>), truck_mode |-> NoMode,
   result |-> NoServiceArea, poly_feat_list |-> <<>>,
   service_area_fset |-> EmptyFeatureSet,
   service_area |-> Feature(0, <<>>),
   fill_symbol |-> [type |-> "", style |-> "", color |-> <<>>]]

InitWith(W(_)) ==
  /\ nb \in {"la", "sa"}
  /\ svc \in W(nb)
  /\ pc = 1
  /\ halted = FALSE
  /\ ns = EmptyNamespace
  /\ bound = [v \in AllNames |-> "none"]
  /\ trace = <<>>
  /\ calls = <<>>
  /\ inspected = <<>>
  /\ sessions = 0

Init == InitWith(FlowWorlds)
InitData == InitWith(DataWorlds)

(* ---------------- running one statement ---------------- *)
Running == ~halted /\ pc \in DOMAIN Prog
Cur == Prog[pc]
At(s) == Running /\ Cur.id = s
BoundNames == {v \in AllNames : bound[v] # "none"}
Finished == ~halted /\ pc = Len(Prog) + 1

(* mutants of CellEnd: the failing statement is tried again; the statement *)
(* after the failing one runs                                              *)
CellEndRetry == pc
CellEndNextStatement == pc + 1

(* the first statement of the next cell *)
CellEnd ==
  IF \E j \in DOMAIN Prog : j > pc /\ Prog[j].cell # Cur.cell
  THEN CHOOSE j \in DOMAIN Prog :
         /\ j > pc /\ Prog[j].cell # Cur.cell
         /\ \A k \in DOMAIN Prog : (k > pc /\ Prog[k].cell # Cur.cell) => j <= k
  ELSE Len(Prog) + 1

(* an uncaught exception in statement or step s: the cell ends there, and  *)
(* the run goes on with the next cell or stops; b2 is what is bound then   *)
Fail(s, b2) ==
  /\ trace' = Append(trace, [stmt |-> s, cell |-> Cur.cell, ok |-> FALSE])
  /\ \/ pc' = CellEnd /\ halted' = halted
     \/ pc' = pc /\ halted' = TRUE
  /\ bound' = b2
Raise(s) == Fail(s, bound)

Bind(names, s) == [v \in AllNames |-> IF v \in names THEN s ELSE bound[v]]

(* statement s ran to its end: its names are bound, the next one follows *)
CompleteWith(s, names) ==
  /\ trace' = Append(trace, [stmt |-> s, cell |-> Cur.cell, ok |-> TRUE])
  /\ pc' = pc + 1
  /\ halted' = halted
  /\ bound' = Bind(names, s)
Complete(s) == CompleteWith(s, Cur.binds)

(* a request to the service, as the call log keeps it *)
Call(op, session, params) ==
  [op |-> op, stmt |-> Cur.id, session |-> session, outcome |-> "returned",
   params |-> params]
NoCall == Call("none", 0, <<>>)
Log(call, outcome) ==
  IF call.op = "none" THEN calls ELSE Append(calls, [call EXCEPT !.outcome = outcome])

(* mutant of NamesBound: an unbound name does not raise *)
NamesBoundAlways == TRUE
NamesBound == Cur.reads \subseteq BoundNames
Succeeds(s) == At(s) /\ NamesBound /\ s \notin svc.faults

(* statement s: a NameError when a name it reads is unbound, else the      *)
(* exception err of its own evaluation, else the failure of its call when  *)
(* the service fails it, its effect otherwise                              *)
StmtX(s, call, err, ns2) ==
  /\ At(s)
  /\ UNCHANGED <<nb, svc>>
  /\ IF ~NamesBound \/ err
     THEN Raise(s) /\ UNCHANGED <<ns, calls>>
     ELSE IF s \in svc.faults
     THEN Raise(s) /\ ns' = ns /\ calls' = Log(call, "raised")
     ELSE Complete(s) /\ ns' = ns2 /\ calls' = Log(call, "returned")

Local(s, ns2) == StmtX(s, NoCall, FALSE, ns2) /\ UNCHANGED <<inspected, sessions>>
Remote(s, call, ns2) == StmtX(s, call, FALSE, ns2) /\ UNCHANGED <<inspected, sessions>>

(* ================= the location-allocation notebook ================= *)
(* from arcgis import * ; from IPython.display import display *)
la_import == Local("la_import", ns)

(* mutant of Connect: the new session is not made the active one *)
ConnectInactive(n, name) == [n EXCEPT ![name] = sessions + 1]
(* gis = GIS(url, user, password): a new session, which becomes the active one *)
Connect(n, name) == [n EXCEPT ![name] = sessions + 1, !.active_gis = sessions + 1]
la_gis ==
  /\ StmtX("la_gis", Call("GIS", 0, <<>>), FALSE, Connect(ns, "gis"))
  /\ sessions' = IF Succeeds("la_gis") THEN sessions + 1 ELSE sessions
  /\ UNCHANGED inspected

(* search_als = gis.content.search('tags: ALS', 'Feature Layer') *)
la_search ==
  Remote("la_search", Call("search", ns.gis, <<>>),
         [ns EXCEPT !.search_als = SearchItems(svc.search, ns.gis)])

(* for item in search_als: display(item)  /  print(item.title) *)
LastItem(n) ==
  IF n.search_als = <<>> THEN n ELSE [n EXCEPT !.item = n.search_als[Len(n.search_als)]]
la_display_items ==
  /\ At("la_display_items")
  /\ UNCHANGED <<nb, svc, calls, inspected, sessions>>
  /\ IF ~NamesBound THEN Raise("la_display_items") /\ ns' = ns
     ELSE /\ CompleteWith("la_display_items", IF ns.search_als = <<>> THEN {} ELSE {"item"})
          /\ ns' = LastItem(ns)
la_print_titles ==
  /\ At("la_print_titles")
  /\ UNCHANGED <<nb, svc, calls, inspected, sessions>>
  /\ IF ~NamesBound THEN Raise("la_print_titles") /\ ns' = ns
     ELSE /\ CompleteWith("la_print_titles", IF ns.search_als = <<>> THEN {} ELSE {"item"})
          /\ ns' = LastItem(ns)

(* map1 = gis.map("State of California, USA") *)
la_map1 ==
  Remote("la_map1", Call("map", ns.gis, <<>>), [ns EXCEPT !.map1 = NewMap(ns.gis, 0)])
la_map1_basemap == Local("la_map1_basemap", [ns EXCEPT !.map1.basemap = "dark-gray"])
la_map1_display == Local("la_map1_display", ns)

(* mutant of Selected: else in place of elif *)
SelectedElse(title) ==
  (IF title = "ALS_Clinics_CA" THEN {"als_clinics"} ELSE {})
  \cup (IF title = "ALS_Patients_CA" THEN {"patient_locations"} ELSE {})
  \cup (IF title = "ALS_Clinic_City_Candidates_CA" THEN {"city_candidates"}
        ELSE {"drive_times"})
(* the body of the item-selection loop: the names assigned for an item of  *)
(* the given title (if / if / if ... elif)                                 *)
Selected(title) ==
  (IF title = "ALS_Clinics_CA" THEN {"als_clinics"} ELSE {})
  \cup (IF title = "ALS_Patients_CA" THEN {"patient_locations"} ELSE {})
  \cup (IF title = "ALS_Clinic_City_Candidates_CA" THEN {"city_candidates"}
        ELSE IF title = "ALS_Clinic_90minDriveTime_CA" THEN {"drive_times"}
        ELSE {})
SelectItem(n, item) ==
  [f \in DOMAIN n |->
     IF f \in Selected(item.title) \cup {"item"} THEN item
     ELSE IF f = "it" THEN n.it + 1 ELSE n[f]]

(* for item in search_als: one iteration, or the end of the loop *)
la_select ==
  /\ At("la_select")
  /\ UNCHANGED <<nb, svc, calls, inspected, sessions>>
  /\ IF ~NamesBound THEN Raise("la_select") /\ ns' = ns
     ELSE IF ns.it < Len(ns.search_als)
     THEN LET item == ns.search_als[ns.it + 1] IN
          /\ ns' = SelectItem(ns, item)
          /\ bound' = Bind(Selected(item.title) \cup {"item"}, "la_select")
          /\ UNCHANGED <<pc, halted, trace>>
     ELSE Complete("la_select") /\ ns' = [ns EXCEPT !.it = 0]

(* map1.add_layer(...) *)
AddLayer(n, item) == [n EXCEPT !.map1.layers = Append(@, item.id)]
la_add_drive_times == Remote("la_add_drive_times", NoCall, AddLayer(ns, ns.drive_times))
la_add_als_clinics == Remote("la_add_als_clinics", NoCall, AddLayer(ns, ns.als_clinics))
la_add_patient_locations ==
  Remote("la_add_patient_locations", NoCall, AddLayer(ns, ns.patient_locations))
la_add_city_candidates ==
  Remote("la_add_city_candidates", NoCall, AddLayer(ns, ns.city_candidates))

(* city_candidates_fset = city_candidates.layers[0].query() *)
la_query_cities ==
  Remote("la_query_cities",
         Call("query", ns.city_candidates.gis, [item |-> ns.city_candidates.id]),
         [ns EXCEPT !.city_candidates_fset = CityFeatures(2)])
(* patient_locations_fset = patient_locations.layers[0].query() *)
la_query_patients ==
  Remote("la_query_patients",
         Call("query", ns.patient_locations.gis, [item |-> ns.patient_locations.id]),
         [ns EXCEPT !.patient_locations_fset = PatientFeatures(svc.patients)])
(* patient_locations_sdf = patient_locations_fset.sdf ; .head() *)
la_sdf ==
  Local("la_sdf", [ns EXCEPT !.patient_locations_sdf = Sdf(ns.patient_locations_fset)])

(* patient_locations_sdf['weight'] = patient_locations_sdf['num_patients'] *)
AddWeight(df) == AssignColumn(df, "weight", "num_patients")
la_weight ==
  Local("la_weight", [ns EXCEPT !.patient_locations_sdf = AddWeight(@)])
(* mutant of DropNumPatients: the wrong column is dropped *)
DropWeight(df) == DropColumn(df, "weight")
(* patient_locations_sdf2 = patient_locations_sdf.drop('num_patients', axis=1) *)
DropNumPatients(df) == DropColumn(df, "num_patients")
la_drop ==
  Local("la_drop",
        [ns EXCEPT !.patient_locations_sdf2 = DropNumPatients(ns.patient_locations_sdf)])
(* patient_locations_weighted = patient_locations_sdf2.spatial.to_featureset() *)
la_to_featureset ==
  Local("la_to_featureset",
        [ns EXCEPT !.patient_locations_weighted = ToFeatureSet(ns.patient_locations_sdf2)])

(* import time ; def visualize_locate_allocate_results(...) *)
la_def == Local("la_def", ns)

(* the arguments of the two solve_location_allocation requests *)
SolveParams1(n) ==
  [problem_type |-> "Maximize Coverage", travel_direction |-> "Demand to Facility",
   number_of_facilities_to_find |-> "1",
   demand_points |-> n.patient_locations_weighted,
   facilities |-> n.city_candidates_fset,
   measurement_units |-> "Minutes", default_measurement_cutoff |-> MeasurementCutoff]
SolveParams2(n) ==
  [problem_type |-> "Target Market Share", target_market_share |-> TargetMarketShare,
   facilities |-> n.city_candidates_fset,
   demand_points |-> n.patient_locations_weighted,
   travel_direction |-> "Demand to Facility",
   measurement_units |-> "Minutes", default_measurement_cutoff |-> MeasurementCutoff]

(* result1 = network.analysis.solve_location_allocation(...): no gis      *)
(* argument, so the request goes through the active session               *)
la_solve1 ==
  Remote("la_solve1",
         Call("solve_location_allocation", ns.active_gis, SolveParams1(ns)),
         [ns EXCEPT !.result1 = LocationAllocationResult(svc.la1)])
la_solve2 ==
  Remote("la_solve2",
         Call("solve_location_allocation", ns.active_gis, SolveParams2(ns)),
         [ns EXCEPT !.result2 = LocationAllocationResult(svc.la2)])

(* mutant of Inspect: the flag is not looked at *)
InspectNothing(s, solve, flag) == inspected
(* print('... {}'.format(resultN.solve_succeeded)) *)
Inspect(s, solve, flag) ==
  Append(inspected, [stmt |-> s, solve |-> solve, signal |-> "solve_succeeded",
                     value |-> flag])
PrintSucceeded(s, solve, flag) ==
  /\ StmtX(s, NoCall, FALSE, ns)
  /\ inspected' = IF Succeeds(s) THEN Inspect(s, solve, flag) ELSE inspected
  /\ UNCHANGED sessions
la_print1 == PrintSucceeded("la_print1", "la_solve1", ns.result1.solve_succeeded)
la_print2 == PrintSucceeded("la_print2", "la_solve2", ns.result2.solve_succeeded)

(* resultN.output_facilities.sdf[['Name', 'FacilityType', ...]] *)
la_table1 == Local("la_table1", ns)
la_table2 == Local("la_table2", ns)

(* map2 = gis.map('Visalia, CA') ; map3 = gis.map('Visalia, CA', zoomlevel=7) *)
la_map2 ==
  Remote("la_map2", Call("map", ns.gis, <<>>), [ns EXCEPT !.map2 = NewMap(ns.gis, 0)])
la_map2_basemap == Local("la_map2_basemap", [ns EXCEPT !.map2.basemap = "dark-gray"])
la_map2_display == Local("la_map2_display", ns)
la_map3 ==
  Remote("la_map3", Call("map", ns.gis, <<>>),
         [ns EXCEPT !.map3 = NewMap(ns.gis, Map3InitialZoom)])
la_map3_basemap == Local("la_map3_basemap", [ns EXCEPT !.map3.basemap = "dark-gray"])
la_map3_display == Local("la_map3_display", ns)

(* ---- visualize_locate_allocate_results(map_widget, result, zoom_level) ---- *)
allocation_line_symbol_1 == [type |-> "esriSLS", style |-> "esriSLSSolid", tenths |-> 7]
allocation_line_symbol_2 == [type |-> "esriSLS", style |-> "esriSLSSolid", tenths |-> 30]
allocation_line_symbol_3 == [type |-> "esriSLS", style |-> "esriSLSSolid", tenths |-> 50]
allocation_line_symbol_4 == [type |-> "esriSLS", style |-> "esriSLSSolid", tenths |-> 70]
allocated_demand_symbol == [type |-> "esriPMS", style |-> "Firefly/cool/1.png", tenths |-> 260]
unallocated_demand_symbol == [type |-> "esriPMS", style |-> "Firefly/warm/1.png", tenths |-> 195]
selected_facilities_symbol ==
  [type |-> "esriPMS", style |-> "Firefly/ClinicSites.png", tenths |-> 260]

(* df[df[col].isin(other[col])] and df[~df[col].isin(other[col])] *)
RowsIn(df, col, values) == SelectSeq(df, LAMBDA r : r.cells[col] \in values)
RowsNotIn(df, col, values) == SelectSeq(df, LAMBDA r : ~(r.cells[col] \in values))

(* mutant of DemandNotAllocated: the negation is missing *)
DemandNotAllocatedUnnegated(demand_df, lines_df) ==
  RowsIn(demand_df, "DemandOID", ColumnValues(lines_df, "DemandOID"))
(* demand_allocated_df, demand_not_allocated_df *)
DemandAllocated(demand_df, lines_df) ==
  RowsIn(demand_df, "DemandOID", ColumnValues(lines_df, "DemandOID"))
DemandNotAllocated(demand_df, lines_df) ==
  RowsNotIn(demand_df, "DemandOID", ColumnValues(lines_df, "DemandOID"))

(* mutant of FacilitiesChosen: the candidates are kept, not the chosen *)
FacilitiesNotChosen(facilities_df) ==
  SelectSeq(facilities_df, LAMBDA r : r.cells["FacilityType"] # ChosenFacilityType)
(* facilities_df, facilities_chosen_df *)
FacilitiesDf(result) ==
  SelectColumns(Sdf(result.output_facilities),
                {"Name", "FacilityType", "Weight", "DemandCount", "DemandWeight", "SHAPE"})
FacilitiesChosen(facilities_df) ==
  SelectSeq(facilities_df, LAMBDA r : r.cells["FacilityType"] = ChosenFacilityType)

InCall == At("la_viz1") \/ At("la_viz2")
VizStep(step) == InCall /\ ns.frame.fpc = step

(* the call: the arguments are evaluated and the body is entered *)
VizEnter(s, m, result, zoom_level) ==
  /\ At(s) /\ ns.frame.fpc = "none"
  /\ UNCHANGED <<nb, svc, calls, inspected, sessions>>
  /\ IF ~NamesBound THEN Raise(s) /\ ns' = ns
     ELSE /\ ns' = [ns EXCEPT !.frame = [NoFrame EXCEPT !.fpc = "viz_parse", !.m = m,
                                          !.result = result, !.zoom_level = zoom_level]]
          /\ UNCHANGED <<pc, halted, trace, bound>>
la_viz1 == VizEnter("la_viz1", "map2", ns.result1, Map2Zoom)
la_viz2 == VizEnter("la_viz2", "map3", ns.result2, Map3Zoom)

(* 1. Parse the locate-allocate analysis results *)
Parse(frame) ==
  LET demand_df == Sdf(frame.result.output_demand_points)
      lines_df == Sdf(frame.result.output_allocation_lines)
  IN [frame EXCEPT
        !.demand_allocated_fset = ToFeatureSet(DemandAllocated(demand_df, lines_df)),
        !.demand_not_allocated_fset = ToFeatureSet(DemandNotAllocated(demand_df, lines_df)),
        !.facilities_chosen_fset = ToFeatureSet(FacilitiesChosen(FacilitiesDf(frame.result))),
        !.fpc = VizDraws[1]]
viz_parse ==
  /\ VizStep("viz_parse")
  /\ UNCHANGED <<nb, svc, calls, inspected, sessions, pc, halted, bound>>
  /\ ns' = [ns EXCEPT !.frame = Parse(@)]
  /\ trace' = Append(trace, [stmt |-> "viz_parse", cell |-> Cur.cell, ok |-> TRUE])

(* m.draw(shape=..., symbol=...): the k-th draw of the body *)
Draw(map, step, shape, symbol) ==
  [map EXCEPT !.drawn = Append(@, [stmt |-> step, shape |-> shape, symbol |-> symbol])]
(* mutant of AfterDraw: the draw after the next one follows *)
AfterDrawSkipsOne(k) == IF k + 1 < Len(VizDraws) THEN VizDraws[k + 2] ELSE "viz_zoom"
AfterDraw(k) == IF k < Len(VizDraws) THEN VizDraws[k + 1] ELSE "viz_zoom"
VizDraw(k, shape, symbol) ==
  /\ VizStep(VizDraws[k])
  /\ UNCHANGED <<nb, svc, calls, inspected, sessions>>
  /\ IF VizDraws[k] \in svc.faults
     THEN Raise(VizDraws[k]) /\ ns' = [ns EXCEPT !.frame = NoFrame]
     ELSE /\ ns' = [ns EXCEPT ![ns.frame.m] = Draw(@, VizDraws[k], shape, symbol),
                              !.frame.fpc = AfterDraw(k)]
          /\ trace' = Append(trace, [stmt |-> VizDraws[k], cell |-> Cur.cell, ok |-> TRUE])
          /\ UNCHANGED <<pc, halted, bound>>
viz_draw_lines_4 == VizDraw(1, ns.frame.result.output_allocation_lines, allocation_line_symbol_4)
viz_draw_lines_2 == VizDraw(2, ns.frame.result.output_allocation_lines, allocation_line_symbol_2)
viz_draw_lines_1 == VizDraw(3, ns.frame.result.output_allocation_lines, allocation_line_symbol_1)
viz_draw_allocated == VizDraw(4, ns.frame.demand_allocated_fset, allocated_demand_symbol)
viz_draw_unallocated ==
  VizDraw(5, ns.frame.demand_not_allocated_fset, unallocated_demand_symbol)
viz_draw_chosen == VizDraw(6, ns.frame.facilities_chosen_fset, selected_facilities_symbol)

(* m.zoom = zoom_level, and the call returns *)
viz_zoom ==
  /\ VizStep("viz_zoom")
  /\ UNCHANGED <<nb, svc, calls, inspected, sessions>>
  /\ ns' = [ns EXCEPT ![ns.frame.m].zoom = ns.frame.zoom_level, !.frame = NoFrame]
  /\ Complete(Cur.id)

LANext ==
  \/ la_import \/ la_gis \/ la_search \/ la_display_items \/ la_print_titles
  \/ la_map1 \/ la_map1_basemap \/ la_map1_display \/ la_select
  \/ la_add_drive_times \/ la_add_als_clinics \/ la_add_patient_locations
  \/ la_add_city_candidates \/ la_query_cities \/ la_query_patients \/ la_sdf
  \/ la_weight \/ la_drop \/ la_to_featureset \/ la_def
  \/ la_solve1 \/ la_print1 \/ la_table1
  \/ la_map2 \/ la_map2_basemap \/ la_map2_display \/ la_viz1
  \/ la_solve2 \/ la_print2 \/ la_table2
  \/ la_map3 \/ la_map3_basemap \/ la_map3_display \/ la_viz2
  \/ viz_parse \/ viz_draw_lines_4 \/ viz_draw_lines_2 \/ viz_draw_lines_1
  \/ viz_draw_allocated \/ viz_draw_unallocated \/ viz_draw_chosen \/ viz_zoom

(* ================= the service-area notebook ================= *)
(* from datetime import datetime ; ... ; from arcgis.gis import GIS *)
sa_import == Local("sa_import", ns)
(* user_name = 'arcgis_python' ; password = '...' *)
sa_credentials == Local("sa_credentials", ns)
(* my_gis = GIS('https://www.arcgis.com', user_name, password) *)
sa_gis ==
  /\ StmtX("sa_gis", Call("GIS", 0, <<>>), FALSE, Connect(ns, "my_gis"))
  /\ sessions' = IF Succeeds("sa_gis") THEN sessions + 1 ELSE sessions
  /\ UNCHANGED inspected
(* import arcgis.network as network *)
sa_import_network == Local("sa_import_network", ns)
(* service_area_url = my_gis.properties.helperServices.serviceArea.url *)
sa_url ==
  Remote("sa_url", Call("helperServices", ns.my_gis, <<>>),
         [ns EXCEPT !.service_area_url = "serviceArea"])
(* sa_layer = network.ServiceAreaLayer(service_area_url, gis=my_gis) *)
sa_layer ==
  Local("sa_layer", [ns EXCEPT !.sa_layer = [url |-> ns.service_area_url, gis |-> ns.my_gis]])

(* fire_station_1_coord = ... ; fire_station_2_coord = ... *)
sa_coords == Local("sa_coords", ns)
(* from arcgis.features import Feature, FeatureSet *)
sa_import_features == Local("sa_import_features", ns)
(* f1 = Feature(geometry={...}) ; f2 = Feature(geometry={...}) *)
sa_f1 == Local("sa_f1", [ns EXCEPT !.f1 = Feature(1, <<>>)])
sa_f2 == Local("sa_f2", [ns EXCEPT !.f2 = Feature(2, <<>>)])
(* fire_station_fset = FeatureSet([f1,f2], geometry_type=..., spatial_reference=...) *)
sa_fire_station_fset ==
  Local("sa_fire_station_fset", [ns EXCEPT !.fire_station_fset = PointSet(<<ns.f1, ns.f2>>)])

(* map1 = my_gis.map('Tokyo', zoomlevel=12) *)
sa_map1 ==
  Remote("sa_map1", Call("map", ns.my_gis, <<>>),
         [ns EXCEPT !.map1 = NewMap(ns.my_gis, TokyoZoom)])
(* fire_truck_symbol = {...} *)
fire_truck_symbol == [type |-> "esriPMS", style |-> "SafetyHealth/FireTruck.png", tenths |-> 200]
sa_symbol == Local("sa_symbol", ns)
(* map1.draw(fire_station_fset, symbol=fire_truck_symbol) *)
sa_draw_stations ==
  Remote("sa_draw_stations", NoCall,
         [ns EXCEPT !.map1 = Draw(@, "sa_draw_stations", ns.fire_station_fset,
                                  fire_truck_symbol)])

(* travel_modes = sa_layer.retrieve_travel_modes() *)
sa_modes ==
  Remote("sa_modes", Call("retrieve_travel_modes", ns.sa_layer.gis, <<>>),
         [ns EXCEPT !.travel_modes = TravelModes(svc.modes)])
(* truck_mode = [t for t in travel_modes['supportedTravelModes']           *)
(*               if t['name'] == 'Trucking Time'][0]                       *)
TruckModes(travel_modes) ==
  SelectSeq(travel_modes.supportedTravelModes, LAMBDA m : m.name = TruckingTime)
sa_truck ==
  /\ StmtX("sa_truck", NoCall, TruckModes(ns.travel_modes) = <<>>,
           [ns EXCEPT !.truck_mode = TruckModes(ns.travel_modes)[1]])
  /\ UNCHANGED <<inspected, sessions>>
(* result = sa_layer.solve_service_area(fire_station_fset, ...) *)
ServiceAreaParams(n) ==
  [facilities |-> n.fire_station_fset, default_breaks |-> Breaks,
   travel_direction |-> "esriNATravelDirectionFromFacility",
   travel_mode |-> n.truck_mode]
sa_solve ==
  Remote("sa_solve", Call("solve_service_area", ns.sa_layer.gis, ServiceAreaParams(ns)),
         [ns EXCEPT !.result = ServiceAreaResult(svc.polygons)])

(* result.keys() ; result['saPolygons'].keys() *)
sa_keys == Local("sa_keys", ns)
sa_poly_keys == Local("sa_poly_keys", ns)

(* mutant of ListInit: the list is not emptied at the start of the cell *)
ListInitKeeps(n) == n
(* poly_feat_list = [] *)
ListInit(n) == [n EXCEPT !.poly_feat_list = <<>>]
sa_list_init == Local("sa_list_init", ListInit(ns))
(* for polygon_dict in result['saPolygons']['features']: one iteration,    *)
(* or the end of the loop                                                  *)
Reshape(n, polygon_dict) ==
  [n EXCEPT !.it = @ + 1, !.polygon_dict = polygon_dict,
            !.f1 = Feature(polygon_dict.geometry, polygon_dict.attributes),
            !.poly_feat_list =
               Append(@, Feature(polygon_dict.geometry, polygon_dict.attributes))]
sa_reshape ==
  /\ At("sa_reshape")
  /\ UNCHANGED <<nb, svc, calls, inspected, sessions>>
  /\ IF ~NamesBound THEN Raise("sa_reshape") /\ ns' = ns
     ELSE IF ns.it < Len(ns.result.saPolygons.features)
     THEN /\ ns' = Reshape(ns, ns.result.saPolygons.features[ns.it + 1])
          /\ bound' = Bind({"polygon_dict", "f1"}, "sa_reshape")
          /\ UNCHANGED <<pc, halted, trace>>
     ELSE Complete("sa_reshape") /\ ns' = [ns EXCEPT !.it = 0]

(* the reshaping cell is run again once it has run to its end, before the  *)
(* next cell: its first statement is the next one again                    *)
StmtAt(s) == CHOOSE j \in DOMAIN Prog : Prog[j].id = s
RunsOf(s) == Cardinality({k \in DOMAIN trace : trace[k].stmt = s})
sa_reshape_again ==
  /\ At("sa_fset")
  /\ trace # <<>> /\ trace[Len(trace)].stmt = "sa_reshape" /\ trace[Len(trace)].ok
  /\ RunsOf("sa_list_init") <= MaxReruns
  /\ pc' = StmtAt("sa_list_init")
  /\ UNCHANGED <<nb, svc, halted, ns, bound, trace, calls, inspected, sessions>>

(* service_area_fset = FeatureSet(poly_feat_list, geometry_type=..., ...) *)
ServiceAreaFset(n) ==
  FeatureSet(n.poly_feat_list, n.result.saPolygons.geometryType,
             n.result.saPolygons.spatialReference)
sa_fset == Local("sa_fset", [ns EXCEPT !.service_area_fset = ServiceAreaFset(ns)])
(* service_area_fset.df *)
sa_df == Local("sa_df", ns)

(* colors = {5: ..., 10: ..., 15: ...} ; fill_symbol = {...} *)
colors == (5 :> <<0, 128, 0, 90>>) @@ (10 :> <<255, 255, 0, 90>>) @@ (15 :> <<255, 0, 0, 90>>)
sa_colors == Local("sa_colors", ns)
sa_fill_symbol ==
  Local("sa_fill_symbol",
        [ns EXCEPT !.fill_symbol = [type |-> "esriSFS", style |-> "esriSFSSolid",
                                    color |-> <<115, 76, 0, 255>>]])

(* for service_area in service_area_fset.features: one iteration (colour,  *)
(* popup, map1.draw), or the end of the loop                               *)
Colour(n, service_area) ==
  [n EXCEPT !.it = @ + 1, !.service_area = service_area,
            !.fill_symbol.color = colors[service_area.attributes.ToBreak]]
sa_draw_areas ==
  /\ At("sa_draw_areas")
  /\ UNCHANGED <<nb, svc, calls, inspected, sessions>>
  /\ IF ~NamesBound THEN Raise("sa_draw_areas") /\ ns' = ns
     ELSE IF ns.it < Len(ns.service_area_fset.features)
     THEN LET service_area == ns.service_area_fset.features[ns.it + 1] IN
          IF ~({"fill_symbol", "colors"} \subseteq BoundNames)
          THEN Fail("sa_draw_areas", Bind({"service_area"}, "sa_draw_areas"))
               /\ ns' = [ns EXCEPT !.it = 0, !.service_area = service_area]
          ELSE IF service_area.attributes.ToBreak \notin DOMAIN colors
          THEN Fail("sa_draw_areas", Bind({"service_area"}, "sa_draw_areas"))
               /\ ns' = [ns EXCEPT !.it = 0, !.service_area = service_area]
          ELSE IF "map1" \notin BoundNames \/ "sa_draw_areas" \in svc.faults
          THEN Fail("sa_draw_areas", Bind({"service_area", "popup"}, "sa_draw_areas"))
               /\ ns' = [Colour(ns, service_area) EXCEPT !.it = 0]
          ELSE /\ ns' = [Colour(ns, service_area) EXCEPT
                           !.map1 = Draw(@, "sa_draw_areas", service_area.geometry,
                                         Colour(ns, service_area).fill_symbol)]
               /\ bound' = Bind({"service_area", "popup"}, "sa_draw_areas")
               /\ UNCHANGED <<pc, halted, trace>>
     ELSE Complete("sa_draw_areas") /\ ns' = [ns EXCEPT !.it = 0]

SANext ==
  \/ sa_import \/ sa_credentials \/ sa_gis \/ sa_import_network \/ sa_url \/ sa_layer
  \/ sa_coords \/ sa_import_features \/ sa_f1 \/ sa_f2 \/ sa_fire_station_fset
  \/ sa_map1 \/ sa_symbol \/ sa_draw_stations
  \/ sa_modes \/ sa_truck \/ sa_solve \/ sa_keys \/ sa_poly_keys
  \/ sa_list_init \/ sa_reshape \/ sa_reshape_again \/ sa_fset \/ sa_df
  \/ sa_colors \/ sa_fill_symbol \/ sa_draw_areas

Next == LANext \/ SANext
Spec == Init /\ [][Next]_vars
SpecData == InitData /\ [][Next]_vars

(* ================= the claims ================= *)
Ok(s) == \E k \in DOMAIN trace : trace[k].stmt = s /\ trace[k].ok
Failures == {k \in DOMAIN trace : ~trace[k].ok}
CompleteRun == Finished /\ Failures = {}
Solves == {"solve_location_allocation", "solve_service_area"}
SolveCalls == {i \in DOMAIN calls : calls[i].op \in Solves}
IssuedBy(s) == {i \in DOMAIN calls : calls[i].stmt = s}

(* C1: the Target Market Share solve request asks for a target market      *)
(* share of 50 percent, the share the heading, the comment of the solve    *)
(* cell and the interpretation of the result name.                         *)
C1_TargetMarketShareIsDocumented ==
  \A i \in SolveCalls :
     (calls[i].op = "solve_location_allocation"
        /\ calls[i].params.problem_type = "Target Market Share")
     => calls[i].params.target_market_share = DocumentedMarketShare

Builders(s) ==
  IF s = "sa_solve" THEN {"sa_fire_station_fset"}
  ELSE {"la_query_cities", "la_query_patients", "la_to_featureset"}
Consumers(s) ==
  CASE s = "la_solve1" -> {<<"la_table1", 10>>, <<"viz_parse", 11>>, <<"viz_zoom", 11>>}
                            \cup {<<VizDraws[k], 11>> : k \in DOMAIN VizDraws}
    [] s = "la_solve2" -> {<<"la_table2", 13>>, <<"viz_parse", 14>>, <<"viz_zoom", 14>>}
                            \cup {<<VizDraws[k], 14>> : k \in DOMAIN VizDraws}
    [] s = "sa_solve" -> {<<"sa_keys", 9>>, <<"sa_poly_keys", 10>>, <<"sa_reshape", 11>>,
                          <<"sa_fset", 12>>, <<"sa_df", 13>>, <<"sa_draw_areas", 15>>}
SolveStmts == IF nb = "la" THEN {"la_solve1", "la_solve2"} ELSE {"sa_solve"}
ReturnedBefore(s, k) ==
  \E j \in 1..(k - 1) : trace[j].stmt = s /\ trace[j].ok
MapOf(s) == IF s = "la_solve1" THEN ns.map2 ELSE IF s = "la_solve2" THEN ns.map3 ELSE ns.map1
SolveOutputDrawn(s) ==
  \E d \in DOMAIN MapOf(s).drawn :
     MapOf(s).drawn[d].stmt \in Range(VizDraws) \cup {"sa_draw_areas"}

(* C2: the phases of a run are ordered: a session is opened before any     *)
(* other request to the service; a solve is requested only after the       *)
(* statements that build its input feature sets have run, with those sets  *)
(* as its inputs; an output of a solve is reshaped or drawn only after     *)
(* that solve has returned.                                                *)
C2_PhasesInOrder ==
  /\ \A i \in DOMAIN calls :
        calls[i].op # "GIS"
        => \E j \in 1..(i - 1) : calls[j].op = "GIS" /\ calls[j].outcome = "returned"
  /\ \A i \in SolveCalls :
        /\ \A b \in Builders(calls[i].stmt) :
              \E k \in DOMAIN trace :
                 /\ trace[k].stmt = b /\ trace[k].ok
                 /\ \A j \in DOMAIN trace : trace[j].stmt = calls[i].stmt => k < j
        /\ calls[i].op = "solve_location_allocation"
           => /\ calls[i].params.demand_points = ns.patient_locations_weighted
              /\ calls[i].params.facilities = ns.city_candidates_fset
        /\ calls[i].op = "solve_service_area"
           => calls[i].params.facilities = ns.fire_station_fset
  /\ \A s \in SolveStmts :
        /\ \A k \in DOMAIN trace :
              (trace[k].ok /\ <<trace[k].stmt, trace[k].cell>> \in Consumers(s))
              => ReturnedBefore(s, k)
        /\ SolveOutputDrawn(s) => Ok(s)
  /\ (ns.poly_feat_list # <<>> \/ ns.frame.fpc # "none") => \E s \in SolveStmts : Ok(s)
C2_Witness ==
  /\ nb = "la" /\ CompleteRun
  /\ Len(ns.map2.drawn) = Len(VizDraws) /\ Len(ns.map3.drawn) = Len(VizDraws)

PrintOf(s) == IF s = "la_solve1" THEN "la_print1" ELSE "la_print2"
FlagOf(s) == IF s = "la_solve1" THEN svc.la1.ok ELSE svc.la2.ok

(* C3 as stated: when a run has ended, the success flag of every solve     *)
(* that returned, in either notebook, has been inspected, and nothing      *)
(* else has.                                                               *)
C3_EverySolveInspected ==
  /\ Finished
     => \A i \in SolveCalls :
           calls[i].outcome = "returned"
           => \E e \in DOMAIN inspected : inspected[e].solve = calls[i].stmt
  /\ \A e \in DOMAIN inspected : inspected[e].signal = "solve_succeeded"

(* C3 as amended: the success flag of every location-allocation solve that *)
(* returned is inspected by the next statement of its cell, with the value *)
(* the service returned; it is the only signal inspected; the result of    *)
(* the service-area solve is never inspected for success.                  *)
C3_LocationAllocationSolveInspected ==
  /\ \A i \in SolveCalls :
        (calls[i].op = "solve_location_allocation" /\ calls[i].outcome = "returned")
        => \/ At(PrintOf(calls[i].stmt))
           \/ \E e \in DOMAIN inspected :
                 /\ inspected[e].solve = calls[i].stmt
                 /\ inspected[e].stmt = PrintOf(calls[i].stmt)
                 /\ inspected[e].value = FlagOf(calls[i].stmt)
  /\ \A e \in DOMAIN inspected :
        /\ inspected[e].signal = "solve_succeeded"
        /\ \E i \in SolveCalls :
              /\ calls[i].stmt = inspected[e].solve
              /\ calls[i].op = "solve_location_allocation"
              /\ calls[i].outcome = "returned"
  /\ nb = "sa" => inspected = <<>>
C3_Witness ==
  /\ nb = "la" /\ Finished
  /\ Len(inspected) = 2
  /\ inspected[1].value = FALSE /\ inspected[2].value = TRUE

(* C4: no solve request is issued a second time, whatever flag or failure  *)
(* an earlier request produced; a run in which every cell ran to its end   *)
(* has issued exactly one solve request in the service-area notebook and   *)
(* exactly two in the location-allocation notebook.                        *)
C4_SolveIssuedOnce ==
  /\ \A s \in SolveStmts : Cardinality(IssuedBy(s)) <= 1
  /\ \A i \in SolveCalls : calls[i].stmt \in SolveStmts
  /\ CompleteRun => Cardinality(SolveCalls) = (IF nb = "sa" THEN 1 ELSE 2)
C4_Witness ==
  /\ nb = "la" /\ Finished
  /\ \E i \in SolveCalls : calls[i].stmt = "la_solve1" /\ calls[i].outcome = "raised"
  /\ \E i \in SolveCalls : calls[i].stmt = "la_solve2" /\ calls[i].outcome = "returned"

BindsOf(s) ==
  UNION {Prog[i].binds : i \in {j \in DOMAIN Prog : Prog[j].id = s}}

(* C5: a statement that fails ends its cell: no later statement of the     *)
(* cell runs, the run is stopped or at another cell, and no name is bound  *)
(* by the failing statement; when no travel mode named 'Trucking Time' is  *)
(* returned, no service-area solve request is issued.                      *)
C5_FailureEndsCell ==
  /\ \A k \in Failures :
        /\ \A j \in DOMAIN trace : j > k => trace[j].cell # trace[k].cell
        /\ Running => (k = Len(trace) => Cur.cell # trace[k].cell)
        /\ Running => Cur.cell > trace[k].cell
        /\ \A v \in BindsOf(trace[k].stmt) : bound[v] # trace[k].stmt
  /\ (nb = "sa" /\ TruckModes(TravelModes(svc.modes)) = <<>>)
     => /\ IssuedBy("sa_solve") = {}
        /\ bound["truck_mode"] = "none" /\ bound["result"] = "none"
C5_Witness ==
  /\ nb = "sa" /\ Finished
  /\ svc.modes = <<DrivingTime>>
  /\ \E k \in Failures : trace[k].stmt = "sa_truck"
  /\ Ok("sa_modes")

(* C6: a run creates at most one session, in the first code cell, and      *)
(* every other request to the service is made after it and goes through    *)
(* it.                                                                     *)
C6_OneSession ==
  /\ sessions <= 1
  /\ \A i \in DOMAIN calls :
        IF calls[i].op = "GIS"
        THEN calls[i].stmt \in {"la_gis", "sa_gis"} /\ i = 1
        ELSE /\ sessions = 1
             /\ calls[i].session = 1
             /\ calls[1].op = "GIS" /\ calls[1].outcome = "returned"
  /\ \A s \in {"la_gis", "sa_gis"} :
        \A i \in DOMAIN Prog : Prog[i].id = s => Prog[i].cell = 1
C6_Witness ==
  /\ nb = "la" /\ CompleteRun
  /\ \A s \in SolveStmts : \E i \in IssuedBy(s) : calls[i].session = 1
  /\ Cardinality({i \in DOMAIN calls : calls[i].op = "GIS"}) = 1

(* C7: the demand points of both location-allocation solve requests are   *)
(* the queried patient locations, one row each and in their order, each    *)
(* with weight equal to the num_patients of the location and without a     *)
(* num_patients field.                                                     *)
C7_DemandIsWeightedPatients ==
  \A i \in SolveCalls :
     calls[i].op = "solve_location_allocation"
     => LET demand == calls[i].params.demand_points.features
            queried == ns.patient_locations_fset.features
        IN /\ Len(demand) = Len(svc.patients)
           /\ Len(demand) = Len(queried)
           /\ \A k \in DOMAIN demand :
                 /\ demand[k].geometry = queried[k].geometry
                 /\ demand[k].attributes.OBJECTID = queried[k].attributes.OBJECTID
                 /\ DOMAIN demand[k].attributes = {"OBJECTID", "weight"}
                 /\ demand[k].attributes.weight = queried[k].attributes.num_patients
                 /\ demand[k].attributes.weight = svc.patients[k]
C7_Witness ==
  /\ svc.patients = <<1, 2>>
  /\ IssuedBy("la_solve1") # {} /\ IssuedBy("la_solve2") # {}
  /\ \A i \in SolveCalls : Len(calls[i].params.demand_points.features) = 2

ResultOf(m) == IF m = "map2" THEN ns.result1 ELSE ns.result2
DrawnBy(m, step) ==
  SelectSeq(ns[m].drawn, LAMBDA d : d.stmt = step)
Geometries(features) == [i \in DOMAIN features |-> features[i].geometry]

(* C8: the facilities drawn as chosen clinic sites are the output          *)
(* facilities of the result whose FacilityType is 3, each of them once,    *)
(* and no other.                                                           *)
C8_ChosenAreType3 ==
  \A m \in {"map2", "map3"} :
     LET drawn == DrawnBy(m, "viz_draw_chosen")
         chosen == SelectSeq(ResultOf(m).output_facilities.features,
                             LAMBDA f : f.attributes.FacilityType = 3)
     IN /\ Len(drawn) <= 1
        /\ Len(drawn) = 1
           => /\ Geometries(drawn[1].shape.features) = Geometries(chosen)
              /\ \A k \in DOMAIN chosen :
                    drawn[1].shape.features[k].attributes.Name = chosen[k].attributes.Name
              /\ drawn[1].symbol = selected_facilities_symbol
C8_Witness ==
  /\ svc.la2.types = <<3, 1>>
  /\ Len(DrawnBy("map3", "viz_draw_chosen")) = 1
  /\ Len(DrawnBy("map3", "viz_draw_chosen")[1].shape.features) = 1

Occurrences(features, f) ==
  Cardinality({k \in DOMAIN features : features[k].geometry = f.geometry})

(* C9: once the body of visualize_locate_allocate_results has parsed the   *)
(* result, every output demand point is in exactly one of the allocated    *)
(* and un-allocated sets, and in the allocated one exactly when its        *)
(* DemandOID is the DemandOID of an output allocation line; those two sets *)
(* are what the fourth and fifth draw put on the map.                      *)
C9_DemandPartition ==
  /\ (InCall /\ ns.frame.fpc \notin {"none", "viz_parse"})
     => LET points == ns.frame.result.output_demand_points.features
            lines == ns.frame.result.output_allocation_lines.features
            allocated == ns.frame.demand_allocated_fset.features
            unallocated == ns.frame.demand_not_allocated_fset.features
        IN /\ Len(allocated) + Len(unallocated) = Len(points)
           /\ \A k \in DOMAIN points :
                 /\ Occurrences(allocated, points[k]) + Occurrences(unallocated, points[k]) = 1
                 /\ Occurrences(allocated, points[k]) = 1
                    <=> \E l \in DOMAIN lines :
                           lines[l].attributes.DemandOID = points[k].attributes.DemandOID
           /\ \A f \in Range(allocated) \cup Range(unallocated) :
                 \E k \in DOMAIN points :
                    /\ points[k].geometry = f.geometry
                    /\ points[k].attributes = f.attributes
  /\ \A m \in {"map2", "map3"} :
        \A d \in DOMAIN ns[m].drawn :
           LET points == ResultOf(m).output_demand_points.features
               oids == {ResultOf(m).output_allocation_lines.features[l].attributes.DemandOID :
                          l \in DOMAIN ResultOf(m).output_allocation_lines.features}
           IN /\ ns[m].drawn[d].stmt = "viz_draw_allocated"
                 => Geometries(ns[m].drawn[d].shape.features) =
                      Geometries(SelectSeq(points, LAMBDA f : f.attributes.DemandOID \in oids))
              /\ ns[m].drawn[d].stmt = "viz_draw_unallocated"
                 => Geometries(ns[m].drawn[d].shape.features) =
                      Geometries(SelectSeq(points, LAMBDA f : f.attributes.DemandOID \notin oids))
C9_Witness ==
  /\ At("la_viz1") /\ ns.frame.fpc = "viz_zoom"
  /\ Len(ns.frame.demand_allocated_fset.features) = 1
  /\ Len(ns.frame.demand_not_allocated_fset.features) = 1
  /\ svc.la1.lines = <<2, 3>>

Names == <<"als_clinics", "patient_locations", "city_candidates", "drive_times">>
Having(title) == {i \in DOMAIN ns.search_als : ns.search_als[i].title = title}
LastHaving(title) == CHOOSE i \in Having(title) : \A j \in Having(title) : j <= i

(* C10: after the item-selection loop each of the four names is bound to   *)
(* the last search result with its title, whatever the order of the        *)
(* results, and a name whose title no result has is not bound.             *)
C10_LastItemOfEachTitle ==
  Ok("la_select")
  => \A k \in DOMAIN Names :
        IF Having(Titles[k]) = {}
        THEN bound[Names[k]] = "none"
        ELSE /\ bound[Names[k]] = "la_select"
             /\ ns[Names[k]].title = Titles[k]
             /\ ns[Names[k]] = ns.search_als[LastHaving(Titles[k])]
(* the four items in another order than the tests of the loop *)
C10_Witness ==
  /\ Ok("la_select")
  /\ [i \in DOMAIN ns.search_als |-> ns.search_als[i].title] =
       <<Titles[4], Titles[2], Titles[3], Titles[1]>>
  /\ \A k \in DOMAIN Names : bound[Names[k]] = "la_select"
  /\ ns.drive_times.id = 1 /\ ns.city_candidates.id = 3
(* a title that two items have *)
C10_WitnessRepeatedTitle ==
  /\ Ok("la_select")
  /\ [i \in DOMAIN ns.search_als |-> ns.search_als[i].title] =
       <<Titles[4], Titles[3], Titles[3], Titles[4]>>
  /\ ns.drive_times.id = 4 /\ ns.city_candidates.id = 3

VizMaps == {"map2", "map3"}
VizCell(m) == IF m = "map2" THEN 11 ELSE 14
VizCall(m) == IF m = "map2" THEN "la_viz1" ELSE "la_viz2"
ZoomLevel(m) == IF m = "map2" THEN 7 ELSE 6
ZoomBefore(m) == IF m = "map2" THEN 0 ELSE 7
DrawsOf(m) ==
  SelectSeq(trace, LAMBDA t : t.stmt \in Range(VizDraws) /\ t.cell = VizCell(m) /\ t.ok)
DrawnKinds ==
  <<"lines", "lines", "lines", "allocated demand", "unallocated demand", "chosen facilities">>
DrawnWidths == <<70, 30, 7, 260, 195, 260>>
KindOf(m, d) ==
  LET result == ResultOf(m)
      among(fs) == \A f \in Range(d.shape.features) :
                      \E g \in Range(fs.features) : g.geometry = f.geometry
  IN CASE d.stmt \in {"viz_draw_lines_4", "viz_draw_lines_2", "viz_draw_lines_1"}
            /\ d.shape = result.output_allocation_lines -> "lines"
       [] d.stmt = "viz_draw_allocated" /\ d.symbol = allocated_demand_symbol
            /\ among(result.output_demand_points) -> "allocated demand"
       [] d.stmt = "viz_draw_unallocated" /\ d.symbol = unallocated_demand_symbol
            /\ among(result.output_demand_points) -> "unallocated demand"
       [] d.stmt = "viz_draw_chosen" /\ d.symbol = selected_facilities_symbol
            /\ among(result.output_facilities) -> "chosen facilities"
       [] OTHER -> "other"

(* C11: the draws a call of visualize_locate_allocate_results has made are *)
(* all on the map passed to it and are the first ones of: the allocation   *)
(* lines with the 7-wide, the 3-wide and the 0.7-wide line symbol, the     *)
(* allocated demand points, the un-allocated demand points, the chosen     *)
(* facilities; a call that returns has made the six of them, and then,     *)
(* not before, the zoom of the map is zoom_level, whatever it was.         *)
C11_SixDrawsThenZoom ==
  /\ nb = "la" => ns.map1.drawn = <<>>
  /\ \A m \in VizMaps :
        LET drawn == ns[m].drawn IN
        /\ Len(drawn) = Len(DrawsOf(m))
        /\ Len(drawn) <= Len(DrawnKinds)
        /\ \A k \in DOMAIN drawn :
              /\ drawn[k].stmt = DrawsOf(m)[k].stmt
              /\ KindOf(m, drawn[k]) = DrawnKinds[k]
              /\ drawn[k].symbol.tenths = DrawnWidths[k]
        /\ Ok(VizCall(m)) => Len(drawn) = Len(DrawnKinds) /\ ns[m].zoom = ZoomLevel(m)
        /\ (bound[m] # "none" /\ ~Ok(VizCall(m))) => ns[m].zoom = ZoomBefore(m)
(* both calls have returned: map2 went from the default zoom to 7, map3    *)
(* from 7 to 6                                                             *)
C11_Witness ==
  /\ Ok("la_viz1") /\ Ok("la_viz2")
  /\ Len(ns.map2.drawn) = 6 /\ Len(ns.map3.drawn) = 6
  /\ ns.map2.zoom = 7 /\ ns.map3.zoom = 6
(* a call that a failing draw ended: three draws made, the zoom untouched *)
C11_WitnessFailedDraw ==
  /\ "viz_draw_allocated" \in svc.faults
  /\ Len(ns.map3.drawn) = 3 /\ ns.map3.zoom = 7
  /\ \E k \in Failures : trace[k].stmt = "viz_draw_allocated" /\ trace[k].cell = 14

Polygons == ns.result.saPolygons
Reshaped(features) ==
  /\ Len(features) = Len(Polygons.features)
  /\ \A k \in DOMAIN features :
        /\ features[k].geometry = Polygons.features[k].geometry
        /\ features[k].attributes = Polygons.features[k].attributes
ReshapeDone == nb = "sa" /\ pc > StmtAt("sa_reshape") /\ Ok("sa_reshape")

(* C12: once the reshaping cell has run to its end, the first time or      *)
(* again, poly_feat_list holds one feature per entry of                    *)
(* result['saPolygons']['features'], in the same order, with the geometry  *)
(* and the attributes of that entry; the service-area feature set built    *)
(* from it holds those features and carries the geometryType and the       *)
(* spatialReference of the result.                                         *)
C12_FeatureSetIsResult ==
  /\ ReshapeDone => Reshaped(ns.poly_feat_list)
  /\ (nb = "sa" /\ Ok("sa_fset"))
     => /\ Reshaped(ns.service_area_fset.features)
        /\ ns.service_area_fset.geometry_type = Polygons.geometryType
        /\ ns.service_area_fset.spatial_reference = Polygons.spatialReference
(* the cell has run twice on a result of two polygons *)
C12_Witness ==
  /\ Ok("sa_fset")
  /\ RunsOf("sa_list_init") = 2 /\ RunsOf("sa_reshape") = 2
  /\ svc.polygons = <<10, 5>>
  /\ Len(ns.service_area_fset.features) = 2
  /\ ns.service_area_fset.features[1].attributes.ToBreak = 10
  /\ ns.service_area_fset.geometry_type = "esriGeometryPolygon"

====
